---- MODULE Spec2Model ----
(***************************************************************************)
(* Model of the native bridge of smart-stock-insider:                      *)
(*   frontend/src-tauri/src/utils.rs     formatting and filesystem helpers *)
(*   frontend/src-tauri/src/commands.rs  the eight bridge commands         *)
(*                                                                         *)
(* Three specifications share the variables:                               *)
(*   SpecFmt     the pure formatting helpers applied to sampled inputs     *)
(*   SpecFs      the filesystem helpers acting on a small path tree        *)
(*   SpecBridge  the bridge commands, process spawning and child exits     *)
(***************************************************************************)
EXTENDS Integers, Sequences, FiniteSets, TLC

VARIABLES
    os,        \* target_os the crate was built for (cfg(target_os = ...))
    fs,        \* the filesystem: path -> [kind, data]
    prev,      \* the call before the last one
    last,      \* the last call: operation, arguments, result
    attempts,  \* process spawns made by the last command, in order
    minimized  \* the main window is minimized

vars == <<os, fs, prev, last, attempts, minimized>>

NoCall == [op |-> "none"]

(***************************************************************************)
(* utils.rs: format_file_size                                              *)
(*                                                                         *)
(* A u64 is held as seven base-1024 digits, least significant first, the   *)
(* seventh below 16 (7 * 10 bits would be 70, a u64 has 64).  The f64      *)
(* `size` is the digits of the converted value (eight, since the           *)
(* conversion can round up to 2^64) and the number of divisions by 1024.0  *)
(* applied to it; such a division is exact in binary floating point.       *)
(***************************************************************************)
Radix == 1024

UNITS == <<"B", "KB", "MB", "GB", "TB">>

TopDigitLimit == 16

F64MantissaBits == 53

RECURSIVE Pow2(_)
Pow2(n) == IF n = 0 THEN 1 ELSE 2 * Pow2(n - 1)

RECURSIVE BitLen(_)
BitLen(n) == IF n = 0 THEN 0 ELSE 1 + BitLen(n \div 2)

\* index of the most significant non-zero digit, 0 for the number zero
TopDigit(d) ==
    IF \A i \in 1..Len(d) : d[i] = 0 THEN 0
    ELSE CHOOSE i \in 1..Len(d) : d[i] # 0 /\ \A j \in (i+1)..Len(d) : d[j] = 0

BitLength(d) ==
    IF TopDigit(d) = 0 THEN 0
    ELSE 10 * (TopDigit(d) - 1) + BitLen(d[TopDigit(d)])

\* add carry c (0 or 1) into digit i and upwards
RECURSIVE AddCarry(_, _, _)
AddCarry(d, i, c) ==
    IF c = 0 \/ i > Len(d) THEN d
    ELSE IF d[i] + c < Radix \/ i = Len(d) THEN [d EXCEPT ![i] = d[i] + c]
    ELSE AddCarry([d EXCEPT ![i] = 0], i + 1, 1)

\* `bytes as f64`: exact up to 53 significant bits, otherwise the dropped
\* low bits are rounded to nearest, ties to even
AsF64(bytes) ==
    LET d    == bytes \o <<0>>
        k    == BitLength(bytes) - F64MantissaBits
        v    == d[1] + Radix * d[2]
        low  == v % Pow2(k)
        half == Pow2(k - 1)
        odd  == (v \div Pow2(k)) % 2 = 1
        up   == low > half \/ (low = half /\ odd)
        w    == v - low + (IF up THEN Pow2(k) ELSE 0)
        d2   == [d EXCEPT ![1] = w % Radix, ![2] = (w \div Radix) % Radix]
    IN  IF k <= 0 THEN d ELSE AddCarry(d2, 3, w \div (Radix * Radix))

\* variant: the loop tests size > 1024.0
SizeGt1024(digits, shift) ==
    /\ \E i \in (shift + 2)..Len(digits) : digits[i] # 0
    /\ ~(/\ digits[shift + 2] = 1
         /\ \A i \in 1..Len(digits) : i # shift + 2 => digits[i] = 0)

\* size >= 1024.0, where size = digits / 1024^shift
SizeGe1024(digits, shift) == \E i \in (shift + 2)..Len(digits) : digits[i] # 0

\* the while loop of format_file_size; yields the final unit_index
RECURSIVE ScaleLoop(_, _)
ScaleLoop(digits, unit_index) ==
    IF SizeGe1024(digits, unit_index) /\ unit_index < Len(UNITS) - 1
    THEN ScaleLoop(digits, unit_index + 1)
    ELSE unit_index

\* integer part of digits / 1024^shift
RECURSIVE IntPart(_, _)
IntPart(digits, shift) ==
    IF shift >= Len(digits) THEN 0
    ELSE digits[shift + 1] + Radix * IntPart(digits, shift + 1)

\* 100 * (fractional part of digits / 1024^shift), as <<floor, remainder>>
\* where remainder is "zero", "below", "half" or "above" one half
RECURSIVE Times100(_, _, _, _)
Times100(digits, i, shift, acc) ==
    \* acc = <<carry into digit i, remainder digits below so far>>
    IF i > shift THEN acc
    ELSE LET t == digits[i] * 100 + acc[1]
         IN  Times100(digits, i + 1, shift, <<t \div Radix, acc[2] \o <<t % Radix>>>>)

Hundredths(digits, shift) ==
    LET r   == Times100(digits, 1, shift, <<0, <<>>>>)
        rem == r[2]
        n   == Len(rem)
        cmp == IF n = 0 \/ \A i \in 1..n : rem[i] = 0 THEN "zero"
               ELSE IF rem[n] < Radix \div 2 THEN "below"
               ELSE IF rem[n] = Radix \div 2 /\ \A i \in 1..(n-1) : rem[i] = 0 THEN "half"
               ELSE "above"
    IN  <<r[1], cmp>>

\* format!("{:.2}", size): exact decimal expansion, rounded half to even
Fixed2(digits, shift) ==
    LET h    == Hundredths(digits, shift)
        up   == h[2] = "above" \/ (h[2] = "half" /\ h[1] % 2 = 1)
        cent == IntPart(digits, shift) * 100 + h[1] + (IF up THEN 1 ELSE 0)
        frac == cent % 100
    IN  ToString(cent \div 100) \o "." \o
        (IF frac < 10 THEN "0" ELSE "") \o ToString(frac)

\* unit_index after the loop
format_unit_index(bytes) == ScaleLoop(AsF64(bytes), 0)

format_file_size(bytes) ==
    LET size       == AsF64(bytes)
        unit_index == format_unit_index(bytes)
    IN  IF unit_index = 0
        THEN ToString(IntPart(bytes, 0)) \o " " \o UNITS[unit_index + 1]
        ELSE Fixed2(size, unit_index) \o " " \o UNITS[unit_index + 1]

(***************************************************************************)
(* utils.rs: is_valid_url.  A url is a sequence of characters.             *)
(***************************************************************************)
starts_with(s, p) == Len(s) >= Len(p) /\ SubSeq(s, 1, Len(p)) = p

HttpPrefix == <<"h", "t", "t", "p", ":", "/", "/">>

HttpsPrefix == <<"h", "t", "t", "p", "s", ":", "/", "/">>

is_valid_url(url) == starts_with(url, HttpPrefix) \/ starts_with(url, HttpsPrefix)

(***************************************************************************)
(* The filesystem seen through std::fs and std::path.                      *)
(*                                                                         *)
(* A path is its sequence of components; an absolute path starts with the  *)
(* root component "/", <<>> is the empty path "", and a relative path is   *)
(* resolved against the working directory, which always exists.            *)
(***************************************************************************)
MaxDepth == 3

Root == <<"/">>

RECURSIVE Chain(_, _)
Chain(base, n) == IF n = 0 THEN base ELSE Chain(base, n - 1) \o <<"d">>

AbsPaths == { Chain(Root, n) : n \in 0..MaxDepth }

RelPaths == { <<>>, <<"d">> }

Paths == AbsPaths \cup RelPaths

\* the paths that can name a filesystem entry
Nodes == Paths \ { <<>> }

\* "", "A", U+667A in UTF-8, and a truncated two-byte sequence
ValidData == { <<>>, <<65>>, <<230, 153, 186>> }

FileData == ValidData \cup { <<195>> }

NoEntry == [kind |-> "none", data |-> <<>>]

DirEntry == [kind |-> "dir", data |-> <<>>]

FileEntry(data) == [kind |-> "file", data |-> data]

Entries == { NoEntry, DirEntry } \cup { FileEntry(d) : d \in FileData }

\* the name's containing directory, for system calls that resolve it
Container(p) == SubSeq(p, 1, Len(p) - 1)

ContainerKind(f, p) ==
    IF Container(p) = <<>> THEN "dir" ELSE f[Container(p)].kind

WellFormed(f) ==
    /\ f[Root] = DirEntry
    /\ \A p \in Nodes \ { Root } : f[p].kind # "none" => ContainerKind(f, p) = "dir"

\* Path::parent
parent(p) ==
    IF p = <<>> \/ p = Root THEN [some |-> FALSE, path |-> <<>>]
    ELSE [some |-> TRUE, path |-> Container(p)]

\* Path::exists: fs::metadata(path).is_ok()
exists(f, p) == p # <<>> /\ f[p].kind # "none"

\* Path::is_dir
is_dir(f, p) == p # <<>> /\ f[p].kind = "dir"

IoOk == "ok"

\* mkdir(2) through fs::DirBuilder
mkdir(f, p) ==
    IF p = <<>> THEN [fs |-> f, err |-> "NotFound"]
    ELSE IF f[p].kind # "none" THEN [fs |-> f, err |-> "AlreadyExists"]
    ELSE IF ContainerKind(f, p) = "none" THEN [fs |-> f, err |-> "NotFound"]
    ELSE IF ContainerKind(f, p) = "file" THEN [fs |-> f, err |-> "NotADirectory"]
    ELSE [fs |-> [f EXCEPT ![p] = DirEntry], err |-> IoOk]

\* fs::create_dir_all (DirBuilder::create_dir_all of the standard library)
RECURSIVE create_dir_all(_, _)
create_dir_all(f, p) ==
    IF p = <<>> THEN [fs |-> f, err |-> IoOk]
    ELSE
      LET first == mkdir(f, p) IN
      IF first.err = IoOk THEN first
      ELSE IF first.err # "NotFound"
      THEN IF is_dir(f, p) THEN [fs |-> f, err |-> IoOk] ELSE first
      ELSE IF ~parent(p).some
      THEN [fs |-> f, err |-> "Uncategorized"]
      ELSE
        LET up == create_dir_all(f, parent(p).path) IN
        IF up.err # IoOk THEN up
        ELSE LET second == mkdir(up.fs, p) IN
             IF second.err = IoOk \/ is_dir(up.fs, p)
             THEN [fs |-> second.fs, err |-> IoOk]
             ELSE second

\* variant: the file is opened for appending instead of being truncated
fs_write_append(f, p, data) ==
    IF p = <<>> THEN [fs |-> f, err |-> "NotFound"]
    ELSE IF f[p].kind = "dir" THEN [fs |-> f, err |-> "IsADirectory"]
    ELSE IF ContainerKind(f, p) = "none" THEN [fs |-> f, err |-> "NotFound"]
    ELSE IF ContainerKind(f, p) = "file" THEN [fs |-> f, err |-> "NotADirectory"]
    ELSE [fs |-> [f EXCEPT ![p] = FileEntry(f[p].data \o data)], err |-> "ok"]

\* fs::write: open with create and truncate, then write all of the data
fs_write(f, p, data) ==
    IF p = <<>> THEN [fs |-> f, err |-> "NotFound"]
    ELSE IF f[p].kind = "dir" THEN [fs |-> f, err |-> "IsADirectory"]
    ELSE IF ContainerKind(f, p) = "none" THEN [fs |-> f, err |-> "NotFound"]
    ELSE IF ContainerKind(f, p) = "file" THEN [fs |-> f, err |-> "NotADirectory"]
    ELSE [fs |-> [f EXCEPT ![p] = FileEntry(data)], err |-> IoOk]

\* str::from_utf8: well-formed UTF-8 only
Cont(b) == b >= 128 /\ b <= 191

RECURSIVE IsUtf8(_)
IsUtf8(b) ==
    IF b = <<>> THEN TRUE
    ELSE
      LET c == b[1]
          n == Len(b)
          tail(k) == SubSeq(b, k + 1, n)
      IN
      IF c < 128 THEN IsUtf8(tail(1))
      ELSE IF c >= 194 /\ c <= 223
      THEN n >= 2 /\ Cont(b[2]) /\ IsUtf8(tail(2))
      ELSE IF c >= 224 /\ c <= 239
      THEN /\ n >= 3
           /\ Cont(b[2]) /\ Cont(b[3])
           /\ (c = 224 => b[2] >= 160)
           /\ (c = 237 => b[2] <= 159)
           /\ IsUtf8(tail(3))
      ELSE IF c >= 240 /\ c <= 244
      THEN /\ n >= 4
           /\ Cont(b[2]) /\ Cont(b[3]) /\ Cont(b[4])
           /\ (c = 240 => b[2] >= 144)
           /\ (c = 244 => b[2] <= 143)
           /\ IsUtf8(tail(4))
      ELSE FALSE

\* fs::read_to_string
read_to_string(f, p) ==
    IF p = <<>> \/ f[p].kind = "none" THEN [err |-> "NotFound", value |-> <<>>]
    ELSE IF f[p].kind = "dir" THEN [err |-> "IsADirectory", value |-> <<>>]
    ELSE IF ~IsUtf8(f[p].data) THEN [err |-> "InvalidData", value |-> <<>>]
    ELSE [err |-> IoOk, value |-> f[p].data]

(***************************************************************************)
(* utils.rs: ensure_dir_exists, write_to_file, read_from_file.             *)
(* Each yields the filesystem it leaves and its result: status "ok",       *)
(* "err" with the io::ErrorKind, or "panic".                               *)
(***************************************************************************)
Ok(value) == [status |-> "ok", kind |-> "", value |-> value]

Err(kind) == [status |-> "err", kind |-> kind, value |-> <<>>]

Panic == [status |-> "panic", kind |-> "", value |-> <<>>]

\* variant: fs::create_dir without the exists() test
ensure_dir_exists_unchecked(f, path) ==
    LET made == mkdir(f, path) IN
    IF made.err # IoOk THEN [fs |-> made.fs, res |-> Err(made.err)]
    ELSE [fs |-> made.fs, res |-> Ok(<<>>)]

ensure_dir_exists(f, path) ==
    IF ~exists(f, path)
    THEN LET made == create_dir_all(f, path) IN
         IF made.err # IoOk THEN [fs |-> made.fs, res |-> Err(made.err)]
         ELSE [fs |-> made.fs, res |-> Ok(<<>>)]
    ELSE [fs |-> f, res |-> Ok(<<>>)]

write_to_file(f, path, content) ==
    IF ~parent(path).some THEN [fs |-> f, res |-> Panic]
    ELSE
      LET ensured == ensure_dir_exists(f, parent(path).path) IN
      IF ensured.res.status # "ok" THEN ensured
      ELSE LET written == fs_write(ensured.fs, path, content) IN
           IF written.err # IoOk THEN [fs |-> written.fs, res |-> Err(written.err)]
           ELSE [fs |-> written.fs, res |-> Ok(<<>>)]

\* variant: a missing file reads as the empty string
read_from_file_default(f, path) ==
    IF exists(f, path)
    THEN LET read == read_to_string(f, path) IN
         IF read.err # IoOk THEN [fs |-> f, res |-> Err(read.err)]
         ELSE [fs |-> f, res |-> Ok(read.value)]
    ELSE [fs |-> f, res |-> Ok(<<>>)]

read_from_file(f, path) ==
    IF exists(f, path)
    THEN LET read == read_to_string(f, path) IN
         IF read.err # IoOk THEN [fs |-> f, res |-> Err(read.err)]
         ELSE [fs |-> f, res |-> Ok(read.value)]
    ELSE [fs |-> f, res |-> Err("NotFound")]

(***************************************************************************)
(* commands.rs: process spawning.  The operating system either accepts a   *)
(* spawn request or refuses it with an error; an accepted child runs on    *)
(* its own and exits later.                                                *)
(***************************************************************************)
OsFamilies == { "windows", "macos", "linux" }

Archs == { "x86_64", "aarch64" }

Targets == [os : OsFamilies, arch : Archs]

Accepted == "accepted"

OsErrors == { "No such file or directory (os error 2)",
              "Permission denied (os error 13)" }

SpawnOutcomes == { Accepted } \cup OsErrors

\* Command::new(program).args(args).spawn() with the given outcome
spawn(program, args, outcome) ==
    [program |-> program, args |-> args, outcome |-> outcome,
     child |-> IF outcome = Accepted THEN "running" ELSE "none"]

Success(value) == [status |-> "ok", value |-> value, message |-> ""]

Failure(message) == [status |-> "err", value |-> <<>>, message |-> message]

NoReturn == [status |-> "noreturn", value |-> <<>>, message |-> ""]

\* .map_err(|e| format!(prefix, e))? followed by Ok(())
SpawnResult(attempt, prefix) ==
    IF attempt.outcome = Accepted THEN Success(<<>>)
    ELSE Failure(prefix \o attempt.outcome)

get_app_info ==
    \* name and description are the source's literals, written here by
    \* their code points; version is env!("CARGO_PKG_VERSION")
    Success([name |-> "U+667A U+80A1 U+901A", version |-> "CARGO_PKG_VERSION",
             description |-> "U+57FA U+4E8E AI U+7684 U+684C U+9762 U+6295 U+8D44 U+7814 U+7A76 U+5E73 U+53F0"])

OpenCommand(t, url) ==
    CASE t.os = "windows" -> [program |-> "cmd", args |-> <<"/C", "start", url>>]
      [] t.os = "macos"   -> [program |-> "open", args |-> <<url>>]
      [] t.os = "linux"   -> [program |-> "xdg-open", args |-> <<url>>]

\* variant: the url is validated first and nothing is spawned for a bad one
open_external_url_validated(t, url, outcome) ==
    LET c == OpenCommand(t, url)
        a == spawn(c.program, c.args, outcome)
    IN  IF ~is_valid_url(url)
        THEN [attempts |-> <<>>, res |-> Failure("Invalid URL")]
        ELSE [attempts |-> <<a>>, res |-> SpawnResult(a, "Failed to open URL: ")]

\* outcome: what the operating system answers to the one spawn request
open_external_url(t, url, outcome) ==
    LET c == OpenCommand(t, url)
        a == spawn(c.program, c.args, outcome)
    IN  [attempts |-> <<a>>, res |-> SpawnResult(a, "Failed to open URL: ")]

managers == <<"nautilus", "dolphin", "thunar", "pcmanfm">>

\* variant: the loop does not return at the first accepted spawn
RECURSIVE TryManagersAll(_, _, _, _)
TryManagersAll(i, path, outcomes, done) ==
    IF i > Len(managers)
    THEN [attempts |-> done,
          res |-> IF \E j \in 1..Len(done) : done[j].outcome = Accepted
                  THEN Success(<<>>)
                  ELSE Failure("No suitable file manager found")]
    ELSE TryManagersAll(i + 1, path, outcomes,
                        Append(done, spawn(managers[i], <<path>>, outcomes[i])))

\* variant: after the loop the function falls through to the final Ok(())
RECURSIVE TryManagersFallThrough(_, _, _, _)
TryManagersFallThrough(i, path, outcomes, done) ==
    IF i > Len(managers)
    THEN [attempts |-> done, res |-> Success(<<>>)]
    ELSE LET a == spawn(managers[i], <<path>>, outcomes[i]) IN
         IF a.outcome = Accepted
         THEN [attempts |-> Append(done, a), res |-> Success(<<>>)]
         ELSE TryManagersFallThrough(i + 1, path, outcomes, Append(done, a))

\* the for loop over managers, from index i on; outcomes[i] is what the
\* operating system answers if manager i is spawned
RECURSIVE TryManagers(_, _, _, _)
TryManagers(i, path, outcomes, done) ==
    IF i > Len(managers)
    THEN [attempts |-> done, res |-> Failure("No suitable file manager found")]
    ELSE LET a == spawn(managers[i], <<path>>, outcomes[i]) IN
         IF a.outcome = Accepted
         THEN [attempts |-> Append(done, a), res |-> Success(<<>>)]
         ELSE TryManagers(i + 1, path, outcomes, Append(done, a))

show_in_folder(t, path, outcomes) ==
    CASE t.os = "windows" ->
           LET a == spawn("explorer", <<"/select,", path>>, outcomes[1])
           IN  [attempts |-> <<a>>, res |-> SpawnResult(a, "Failed to show in folder: ")]
      [] t.os = "macos" ->
           LET a == spawn("open", <<"-R", path>>, outcomes[1])
           IN  [attempts |-> <<a>>, res |-> SpawnResult(a, "Failed to show in folder: ")]
      [] t.os = "linux" -> TryManagers(1, path, outcomes, <<>>)

\* variant: a memory probe that can fail is propagated
get_system_info_probe(t) == Failure("Failed to detect memory")

get_system_info(t) ==
    Success([os |-> t.os, arch |-> t.arch, memory |-> "Unknown"])

check_for_updates == Success(FALSE)

\* outcome: what window.minimize() answers
minimize_to_tray(outcome) ==
    IF outcome = "ok" THEN Success(<<>>)
    ELSE Failure("Failed to minimize window: " \o outcome)

show_notification(title, body) == Success(<<>>)

(***************************************************************************)
(* Inputs                                                                  *)
(***************************************************************************)
DigitSamples == { 0, 1, 512, 1023 }

TopSamples == { 0, 1, TopDigitLimit - 1 }

\* u64 values around every power of 1024, up to 2^64 - 1
U64Samples ==
    DigitSamples \X DigitSamples \X DigitSamples \X DigitSamples \X
    DigitSamples \X DigitSamples \X TopSamples

Urls == { HttpsPrefix \o <<"x">>,
          HttpPrefix \o <<"x">>,
          <<"f", "t", "p", ":", "/", "/", "x">>,
          <<"x">>,
          <<"x", "&", "y">>,
          <<>> }

FolderPaths == { "/d/f", "" }

Texts == { "", "t" }

WindowOutcomes == { "ok", "window not found" }

EmptyFs == [p \in Nodes |-> IF p = Root THEN DirEntry ELSE NoEntry]

DefaultTarget == [os |-> "linux", arch |-> "x86_64"]

\* what a later call remembers of the call before it
Brief(call) ==
    IF call.op = "none" THEN NoCall
    ELSE [op |-> call.op, status |-> call.res.status]

(***************************************************************************)
(* SpecFmt: the formatting helpers                                         *)
(***************************************************************************)
\* the helper is about to be called on an argument drawn from the samples
InitFmt ==
    /\ os = DefaultTarget
    /\ fs = EmptyFs
    /\ prev = NoCall
    /\ last \in { [op |-> "call_format_file_size", bytes |-> b] : b \in U64Samples }
            \cup { [op |-> "call_is_valid_url", url |-> u] : u \in Urls }
    /\ attempts = <<>>
    /\ minimized = FALSE

FormatFileSize ==
    /\ last.op = "call_format_file_size"
    /\ last' = [op |-> "format_file_size", bytes |-> last.bytes,
                unit_index |-> format_unit_index(last.bytes),
                res |-> format_file_size(last.bytes)]
    /\ UNCHANGED <<os, fs, prev, attempts, minimized>>

IsValidUrl ==
    /\ last.op = "call_is_valid_url"
    /\ last' = [op |-> "is_valid_url", url |-> last.url, res |-> is_valid_url(last.url)]
    /\ UNCHANGED <<os, fs, prev, attempts, minimized>>

NextFmt == FormatFileSize \/ IsValidUrl

SpecFmt == InitFmt /\ [][NextFmt]_vars

(***************************************************************************)
(* SpecFs: the filesystem helpers, called one after another on any         *)
(* well-formed filesystem                                                  *)
(***************************************************************************)
InitFs ==
    /\ os = DefaultTarget
    /\ fs \in { f \in [Nodes -> Entries] : WellFormed(f) }
    /\ prev = NoCall
    /\ last = NoCall
    /\ attempts = <<>>
    /\ minimized = FALSE

\* the call record without the filesystem it started from
Short(call) ==
    IF call.op = "none" THEN NoCall
    ELSE [op |-> call.op, path |-> call.path, content |-> call.content,
          res |-> call.res]

FsCall(op, path, content, out) ==
    /\ fs' = out.fs
    /\ last' = [op |-> op, path |-> path, content |-> content,
                res |-> out.res, pre |-> fs]
    /\ prev' = Short(last)
    /\ UNCHANGED <<os, attempts, minimized>>

EnsureDirExists ==
    \E path \in Paths :
        FsCall("ensure_dir_exists", path, <<>>, ensure_dir_exists(fs, path))

WriteToFile ==
    \E path \in Paths, content \in ValidData :
        FsCall("write_to_file", path, content, write_to_file(fs, path, content))

ReadFromFile ==
    \E path \in Paths :
        FsCall("read_from_file", path, <<>>, read_from_file(fs, path))

NextFs == EnsureDirExists \/ WriteToFile \/ ReadFromFile

SpecFs == InitFs /\ [][NextFs]_vars

(***************************************************************************)
(* SpecBridge: the bridge commands, invoked one after another, and the     *)
(* spawned children exiting on their own                                   *)
(***************************************************************************)
InitBridge ==
    /\ os \in Targets
    /\ fs = EmptyFs
    /\ prev = NoCall
    /\ last = NoCall
    /\ attempts = <<>>
    /\ minimized = FALSE

Command(op, arg, out, spawned) ==
    /\ last' = [op |-> op, arg |-> arg, res |-> out]
    /\ prev' = Brief(last)
    /\ attempts' = spawned
    /\ UNCHANGED <<os, fs>>

GetAppInfo ==
    /\ Command("get_app_info", <<>>, get_app_info, <<>>)
    /\ UNCHANGED minimized

OpenExternalUrl ==
    \E url \in Urls, outcome \in SpawnOutcomes :
        LET out == open_external_url(os, url, outcome) IN
        /\ Command("open_external_url", url, out.res, out.attempts)
        /\ UNCHANGED minimized

ShowInFolder ==
    \E path \in FolderPaths, outcomes \in [1..Len(managers) -> SpawnOutcomes] :
        LET out == show_in_folder(os, path, outcomes) IN
        /\ Command("show_in_folder", [path |-> path, outcomes |-> outcomes],
                   out.res, out.attempts)
        /\ UNCHANGED minimized

GetSystemInfo ==
    /\ Command("get_system_info", <<>>, get_system_info(os), <<>>)
    /\ UNCHANGED minimized

CheckForUpdates ==
    /\ Command("check_for_updates", <<>>, check_for_updates, <<>>)
    /\ UNCHANGED minimized

\* app.restart() does not return: the process is replaced by a fresh one
RestartApp ==
    /\ Command("restart_app", <<>>, NoReturn, <<>>)
    /\ minimized' = FALSE

MinimizeToTray ==
    \E outcome \in WindowOutcomes :
        /\ Command("minimize_to_tray", <<>>, minimize_to_tray(outcome), <<>>)
        /\ minimized' = IF outcome = "ok" THEN TRUE ELSE minimized

ShowNotification ==
    \E title \in Texts, body \in Texts :
        /\ Command("show_notification", <<title, body>>,
                   show_notification(title, body), <<>>)
        /\ UNCHANGED minimized

\* a child spawned by the last command exits, with status zero or not
ChildExit ==
    \E i \in 1..Len(attempts), status \in { "exit_zero", "exit_nonzero" } :
        /\ attempts[i].child = "running"
        /\ attempts' = [attempts EXCEPT ![i].child = status]
        /\ UNCHANGED <<os, fs, prev, last, minimized>>

NextBridge ==
    \/ GetAppInfo
    \/ OpenExternalUrl
    \/ ShowInFolder
    \/ GetSystemInfo
    \/ CheckForUpdates
    \/ RestartApp
    \/ MinimizeToTray
    \/ ShowNotification
    \/ ChildExit

SpecBridge == InitBridge /\ [][NextBridge]_vars

(***************************************************************************)
(* Properties of show_in_folder on Linux (SpecBridge)                      *)
(***************************************************************************)
LinuxReveal == last.op = "show_in_folder" /\ os.os = "linux"

Candidates == <<"nautilus", "dolphin", "thunar", "pcmanfm">>

Attempted == [i \in 1..Len(attempts) |-> attempts[i].program]

\* C1: on Linux the candidates are tried in the order nautilus, dolphin,
\* thunar, pcmanfm; the command returns Success at the first candidate whose
\* spawn is accepted and attempts none of the candidates after it.
C1_ShortCircuit ==
    LinuxReveal =>
        \A k \in 1..4 :
            (/\ last.arg.outcomes[k] = Accepted
             /\ \A j \in 1..(k - 1) : last.arg.outcomes[j] # Accepted)
            => /\ last.res.status = "ok"
               /\ Attempted = SubSeq(Candidates, 1, k)
               /\ \A i \in 1..k : attempts[i].args = <<last.arg.path>>

\* A fails, B would succeed and so would C: B is the last one attempted
C1_Witness ==
    /\ LinuxReveal
    /\ last.arg.outcomes[1] # Accepted
    /\ last.arg.outcomes[2] = Accepted
    /\ last.arg.outcomes[3] = Accepted
    /\ Attempted = <<"nautilus", "dolphin">>
    /\ last.res.status = "ok"

\* C2: on Linux show_in_folder returns Failure exactly when every one of the
\* four spawns is refused; then each candidate was attempted exactly once
\* and the Failure carries a non-empty message.
C2_FailureIffAllRefused ==
    LinuxReveal =>
        /\ last.res.status \in { "ok", "err" }
        /\ last.res.status = "err" <=> \A k \in 1..4 : last.arg.outcomes[k] # Accepted
        /\ last.res.status = "err" =>
              /\ Attempted = Candidates
              /\ \A i \in 1..4 : attempts[i].outcome = last.arg.outcomes[i]
              /\ Len(last.res.message) > 0

C2_Witness ==
    /\ LinuxReveal
    /\ \A k \in 1..4 : last.arg.outcomes[k] # Accepted
    /\ last.res.status = "err"
    /\ Len(attempts) = 4

(***************************************************************************)
(* Properties of format_file_size (SpecFmt)                                *)
(***************************************************************************)
Formatted == last.op = "format_file_size"

\* bytes < 1024^(k+1) and bytes >= 1024^k, read off the digits of bytes
Below(bytes, k) == \A i \in (k + 1)..Len(bytes) : bytes[i] = 0

AtLeast(bytes, k) == ~Below(bytes, k)

\* C3 as claimed: unit B, rendering b itself, iff b < 1024; otherwise a unit
\* among KB..TB at which the scaled value b / 1024^k is below 1024 (and at
\* least 1, so that no smaller unit would do); never a unit beyond TB.
C3_Original ==
    Formatted =>
        /\ last.unit_index \in 0..4
        /\ last.unit_index = 0 <=> Below(last.bytes, 1)
        /\ last.unit_index = 0 => last.res = ToString(last.bytes[1]) \o " B"
        /\ last.unit_index > 0 =>
              /\ AtLeast(last.bytes, last.unit_index)
              /\ Below(last.bytes, last.unit_index + 1)

\* C3 as amended: unit B, rendering b itself, iff b < 1024; for
\* 1024 <= b < 1024^5 the unit k among KB..TB with 1 <= b / 1024^k < 1024;
\* for b >= 1024^5 the unit TB, whose scaled value is then 1024 or more;
\* never a unit beyond TB.
C3_UnitSelection ==
    Formatted =>
        /\ last.unit_index \in 0..4
        /\ last.unit_index = 0 <=> Below(last.bytes, 1)
        /\ last.unit_index = 0 => last.res = ToString(last.bytes[1]) \o " B"
        /\ (AtLeast(last.bytes, 1) /\ Below(last.bytes, 5)) =>
              /\ last.unit_index > 0
              /\ AtLeast(last.bytes, last.unit_index)
              /\ Below(last.bytes, last.unit_index + 1)
        /\ AtLeast(last.bytes, 5) => last.unit_index = 4
        /\ last.bytes = <<512, 0, 0, 0, 0, 0, 0>> => last.res = "512 B"
        /\ last.bytes = <<0, 1, 0, 0, 0, 0, 0>> => last.res = "1.00 KB"
        /\ last.bytes = <<512, 1, 0, 0, 0, 0, 0>> => last.res = "1.50 KB"
        /\ last.bytes = <<0, 0, 1, 0, 0, 0, 0>> => last.res = "1.00 MB"

\* 1024^5 bytes are formatted in TB, as 1024 of them
C3_Witness ==
    /\ Formatted
    /\ last.bytes = <<0, 0, 0, 0, 0, 1, 0>>
    /\ last.unit_index = 4
    /\ last.res = "1024.00 TB"

(***************************************************************************)
(* Properties of the filesystem helpers (SpecFs)                           *)
(***************************************************************************)
\* C4: a successful write_to_file(p, c) followed by read_from_file(p)
\* returns exactly c.
C4_RoundTrip ==
    (/\ prev.op = "write_to_file"
     /\ prev.res.status = "ok"
     /\ last.op = "read_from_file"
     /\ last.path = prev.path)
    => last.res = Ok(prev.content)

\* the parent directories were made by the write and the text read back
C4_Witness ==
    /\ prev.op = "write_to_file"
    /\ prev.res.status = "ok"
    /\ prev.path = Chain(Root, MaxDepth)
    /\ last.op = "read_from_file"
    /\ last.path = prev.path
    /\ last.res = Ok(<<230, 153, 186>>)

\* C5 as claimed: read_from_file on a path that does not exist returns the
\* error NotFound and leaves the filesystem unchanged; on a path that exists
\* it returns the full content of the file.
C5_Original ==
    last.op = "read_from_file" =>
        /\ fs = last.pre
        /\ ~exists(last.pre, last.path) => last.res = Err("NotFound")
        /\ exists(last.pre, last.path) => last.res = Ok(last.pre[last.path].data)

\* C5 as amended: read_from_file on a path that does not exist returns the
\* error NotFound; on a readable regular file holding well-formed UTF-8 it
\* returns the full content; on a directory or a file that is not well-formed UTF-8 it
\* returns an error of another kind than NotFound; the filesystem is
\* unchanged in every case.
C5_ReadFromFile ==
    last.op = "read_from_file" =>
        LET p == last.path
            e == last.pre[p]
        IN
        /\ fs = last.pre
        /\ ~exists(last.pre, p) => last.res = Err("NotFound")
        /\ (exists(last.pre, p) /\ e.kind = "file" /\ e.data \in ValidData)
              => last.res = Ok(e.data)
        /\ (exists(last.pre, p) /\ (e.kind = "dir" \/ e.data \notin ValidData))
              => last.res.status = "err" /\ last.res.kind # "NotFound"

C5_Witness ==
    /\ last.op = "read_from_file"
    /\ last.path = Chain(Root, 1)
    /\ fs[last.path].kind = "none"
    /\ last.res = Err("NotFound")

\* C6: if ensure_dir_exists(p) succeeds, a second call on the same p succeeds
\* too and leaves the filesystem as the first call left it.
C6_Idempotent ==
    (/\ prev.op = "ensure_dir_exists"
     /\ prev.res.status = "ok"
     /\ last.op = "ensure_dir_exists"
     /\ last.path = prev.path)
    => last.res.status = "ok" /\ fs = last.pre

C6_Witness ==
    /\ prev.op = "ensure_dir_exists"
    /\ prev.res.status = "ok"
    /\ last.op = "ensure_dir_exists"
    /\ last.path = prev.path
    /\ last.path = Chain(Root, MaxDepth)
    /\ fs[last.path].kind = "dir"
    /\ last.res.status = "ok"

\* C7: write_to_file makes sure the parent directory of p exists before the
\* file is written, and on a path without parent it returns an error
\* result and writes no file.
C7_NoParentIsError ==
    last.op = "write_to_file" =>
        /\ last.res.status = "ok" =>
              \/ parent(last.path).path = <<>>
              \/ is_dir(fs, parent(last.path).path)
        /\ ~parent(last.path).some => last.res.status = "err" /\ fs = last.pre

\* C10: whenever ensure_dir_exists(p) returns success, p is a directory
\* afterwards, and so are all its ancestors, whatever p was before.
C10_SuccessMeansDirectory ==
    (/\ last.op = "ensure_dir_exists"
     /\ last.path # <<>>
     /\ last.res.status = "ok")
    => \A n \in 1..Len(last.path) : is_dir(fs, SubSeq(last.path, 1, n))

(***************************************************************************)
(* Properties of the bridge commands (SpecBridge)                          *)
(***************************************************************************)
Opened == last.op = "open_external_url"

OpenResultAtSpawn ==
    Opened =>
        /\ Len(attempts) = 1
        /\ attempts[1].program =
              (CASE os.os = "windows" -> "cmd"
                 [] os.os = "macos"   -> "open"
                 [] os.os = "linux"   -> "xdg-open")
        /\ attempts[1].args[Len(attempts[1].args)] = last.arg
        /\ last.res.status \in { "ok", "err" }
        /\ last.res.status = "ok" <=> attempts[1].outcome = Accepted
        /\ attempts[1].outcome # Accepted =>
              last.res.message = "Failed to open URL: " \o attempts[1].outcome

\* the exit of the child is only seen by a step after the command returned
OpenNeverWaits ==
    (Opened' /\ attempts'[1].child \in { "exit_zero", "exit_nonzero" })
    => (last' = last /\ attempts[1].child = "running")

\* C8: open_external_url makes exactly one spawn attempt for any url,
\* validated or not; it returns Success iff the spawn is accepted and a
\* Failure carrying the OS error text otherwise; the result is fixed when
\* the spawn returns and does not depend on how the child exits later.
C8_OpenExternalUrl == []OpenResultAtSpawn /\ [][OpenNeverWaits]_vars

\* a url that is_valid_url rejects was spawned, the command returned
\* Success, and the child failed afterwards
C8_Witness ==
    /\ Opened
    /\ ~is_valid_url(last.arg)
    /\ last.res.status = "ok"
    /\ attempts[1].child = "exit_nonzero"

InfoOps == { "get_app_info", "get_system_info" }

InfoSucceeds ==
    /\ last.op \in InfoOps => last.res.status = "ok"
    /\ last.op = "get_system_info" =>
          last.res.value = [os |-> os.os, arch |-> os.arch, memory |-> "Unknown"]

InfoTouchesNothing == last'.op \in InfoOps => UNCHANGED <<os, fs, minimized>>

\* C9: after any sequence of bridge commands get_app_info and
\* get_system_info return Success; they change no state other commands use,
\* and the memory field of get_system_info is the placeholder "Unknown".
C9_InfoNeverFails == []InfoSucceeds /\ [][InfoTouchesNothing]_vars

\* get_system_info succeeds right after a command that failed
C9_Witness ==
    /\ prev.op \in { "open_external_url", "show_in_folder", "minimize_to_tray" }
    /\ prev.status = "err"
    /\ last.op = "get_system_info"
    /\ last.res.status = "ok"
    /\ last.res.value.memory = "Unknown"

====
